---- MODULE Spec2Model ----
(***************************************************************************)
(* The image editor's controller (the App component), its adjustment       *)
(* effect, the edit request client and the codec / canvas utilities, as a  *)
(* state machine.  One action per event handler or asynchronous            *)
(* continuation; a handler's state updates are batched into one step and   *)
(* the adjustment effect that the following render triggers is part of the *)
(* same step.                                                              *)
(***************************************************************************)
EXTENDS Integers, Sequences, FiniteSets, TLC

\* ------------------------------------------------------------------ bounds
MaxPendingFilters == 2      \* applyCanvasFilter calls that may be pending
MaxLoads == 1               \* Image() loads that may be pending
MaxEvents == 6              \* user events in a session
MaxLiveEvents == 5          \* user events in a session checked for liveness
MaxRequests == 2            \* handler invocations that may be in flight
MaxCodecEvents == 5         \* user events in a session explored beside the codec
MaxDataUrlLen == 4          \* tokens of a data URL given to the codec
MaxDirectEvents == 5        \* user events in a session with direct handler calls
MaxDownloadUrlLen == 5      \* tokens of a data URL given to the download handler

\* ------------------------------------------------------------------ values
Null == [kind |-> "null"]
NoError == "null"
NoFile == 0
Files == {1, 2}

\* Natural size of the picked file (img.width, img.height).
FileDims(f) == IF f = 1 THEN [width |-> 4, height |-> 3] ELSE [width |-> 2, height |-> 2]
\* file.type of the picked file.
FileType(f) == IF f = 1 THEN "image/jpeg" ELSE "image/png"

Prompts == {"", " ", "sky"}
\* prompt.trim()
Trim(p) == IF p = " " THEN "" ELSE p

ENHANCE_PROMPT == "Enhance the image quality, lighting, and colors to make it look professional and vibrant."

Contrasts == {50, 100, 150}
Percentages == {50, 100}
WidthInputs == {0, 2}
CropRects == {[x |-> 0, y |-> 0, width |-> 2, height |-> 1],
              [x |-> 1, y |-> 1, width |-> 0, height |-> 0]}
RemoteMimes == {"image/jpeg"}

\* Error messages.
ErrGeneratePrecondition == "Please upload an image and enter a prompt."
ErrEnhancePrecondition == "Please upload an image first."
ErrNoImageAvailable == "No image available to process."
ErrNoResultGenerate == "The API did not return an image. Please try a different prompt."
ErrNoResultEnhance == "The API did not return an image. Please try again."
ErrApiKey == "API key is not configured. Please set the API_KEY environment variable."
ErrGeminiPrefix == "Gemini API Error: "
ErrGeminiUnknown == "An unknown error occurred while contacting the Gemini API."
ErrInvalidDataUrl == "Invalid data URL for conversion."
ErrReadBase64 == "Failed to read file as base64."
\* Mutant of ErrUnexpected: setError(err.message) without the fallback text.
ErrUnexpected_Missing == NoError
ErrUnexpected == "An unexpected error occurred."
ErrResizeLoad == "Failed to load image for resizing."
RemoteFailure == "503 Service Unavailable"

\* ------------------------------------------------------------------ images
\* An encoded image (a data URL): what it depicts, its declared MIME type, its
\* pixel size (<<0, 0>>: whatever the remote call returned) and the canvas
\* filters it was re-rendered through.
RemoteImage(part, mime) ==
    [kind |-> "image", of |-> part.data, mime |-> mime, size |-> <<0, 0>>,
     filters |-> <<>>]

\* canvas.toDataURL(mimeType) of resizeImage and applyCanvasFilter.
CanvasMime(img) == IF img.mime = "image/jpeg" THEN "image/jpeg" ELSE "image/png"

resizeImage(img, newWidth, newHeight) ==
    [img EXCEPT !.size = <<newWidth, newHeight>>, !.mime = CanvasMime(img)]

applyCanvasFilter(img, c) ==
    [img EXCEPT !.filters = Append(@, c), !.mime = CanvasMime(img)]

\* The image handleApplyCrop draws on its canvas: which file, and its size.
CropDataUrl(f, rect) ==
    [kind |-> "crop", file |-> f, width |-> rect.width, height |-> rect.height]

\* ------------------------------------------------------------------- codec
\* The text of a data URL is a sequence of tokens: "data:", ";" and "," are the
\* characters the codec looks for, any other token is text without them.
DataUrlTokens == {"data:", "image/jpeg", ";", ",", "AAAA"}
DataUrlInputs == UNION {[1..n -> DataUrlTokens] : n \in 0..MaxDataUrlLen}

RECURSIVE Join(_)
Join(s) == IF s = <<>> THEN "" ELSE Head(s) \o Join(Tail(s))

\* Position of the first t in s at or after position i; 0 when there is none.
RECURSIVE IndexOf(_, _, _)
IndexOf(s, t, i) ==
    IF i > Len(s) THEN 0 ELSE IF s[i] = t THEN i ELSE IndexOf(s, t, i + 1)

\* A value JavaScript leaves undefined.
Undefined == <<"undefined">>

\* Mutant of SplitComma1: everything after the first comma
\* (dataUrl.substring(dataUrl.indexOf(',') + 1)) instead of split(',')[1].
SplitComma1_Rest(s) ==
    LET c1 == IndexOf(s, ",", 1)
    IN  IF c1 = 0 THEN Undefined ELSE SubSeq(s, c1 + 1, Len(s))

\* dataUrl.split(',')[1]
SplitComma1(s) ==
    LET c1 == IndexOf(s, ",", 1)
        c2 == IndexOf(s, ",", c1 + 1)
    IN  IF c1 = 0 THEN Undefined
        ELSE SubSeq(s, c1 + 1, IF c2 = 0 THEN Len(s) ELSE c2 - 1)

\* !base64Data
Falsy(v) == v \in {Undefined, <<>>}

\* dataUrl.match(/data:(.*?);/)?.[1] ?? 'image/png'
MatchMime(s) ==
    LET d == IndexOf(s, "data:", 1)
        e == IndexOf(s, ";", d + 1)
    IN  IF d = 0 \/ e = 0 THEN <<"image/png">> ELSE SubSeq(s, d + 1, e - 1)

\* data and mimeType are texts too; fileToGenerativePart takes file.type as it is.
dataUrlToGenerativePart(dataUrl) ==
    LET mimeType == MatchMime(dataUrl)
        base64Data == SplitComma1(dataUrl)
    IN  IF Falsy(base64Data)
        THEN [kind |-> "throw", message |-> ErrInvalidDataUrl]
        ELSE [kind |-> "part", data |-> base64Data, mimeType |-> mimeType]

\* reader.onload of fileToGenerativePart, reader.result being dataUrl.
fileToGenerativePart(fileType, dataUrl) ==
    LET base64Data == SplitComma1(dataUrl)
    IN  IF Falsy(base64Data)
        THEN [kind |-> "throw", message |-> ErrReadBase64]
        ELSE [kind |-> "part", data |-> base64Data, mimeType |-> fileType]

\* The text of canvas.toDataURL('image/png') of the crop canvas: a canvas
\* without area encodes to "data:,".
CanvasDataUrl(url) ==
    IF url.width = 0 \/ url.height = 0 THEN <<"data:", ",">>
    ELSE <<"data:", "image/png", ";", "base64", ",", "AAAA">>

\* The text FileReader.readAsDataURL gives for the picked file, and for a file
\* without content.
FileDataUrl(f) == <<"data:", FileType(f), ";", "base64", ",", "AAAA">>
EmptyFileDataUrl == <<"data:">>

\* Mutant of CropPart: the payload is the file the crop was cut from.
CropPart_Original(url) ==
    LET p == dataUrlToGenerativePart(CanvasDataUrl(url))
    IN  IF p.kind = "throw" THEN Null
        ELSE [kind |-> "part", data |-> [kind |-> "file", file |-> url.file],
              mimeType |-> Join(p.mimeType)]

\* The part made from the cropped image, its data being the cropped image;
\* Null stands for the thrown decoding error.
CropPart(url) ==
    LET p == dataUrlToGenerativePart(CanvasDataUrl(url))
    IN  IF p.kind = "throw" THEN Null
        ELSE [kind |-> "part", data |-> url, mimeType |-> Join(p.mimeType)]

\* The part handleGenerateClick keeps of the picked file f, p being what
\* fileToGenerativePart resolved to: its data stands for the file's content.
FilePart(f, p) ==
    [kind |-> "part", data |-> [kind |-> "file", file |-> f], mimeType |-> p.mimeType]

VARIABLES
    originalImage, prompt, editedImage, finalImage, isLoading, isEnhancing, error,
    isCropModalOpen, crop, completedCrop, croppedImageUrl,
    originalDimensions, resizeOptions, contrast,
    apiKey,            \* process.env.API_KEY is set
    requests,          \* in-flight invocations of handleGenerateClick / handleEnhanceClick
    pendingFilters,    \* pending applyCanvasFilter calls of the adjustment effect
    loads,             \* pending Image() loads (img.onload not yet fired)
    events,            \* user events handled so far
    budget,            \* user events the session is explored for
    lastOp,            \* the handler or continuation that ran last
    dataUrl,           \* the text given to the codec or the download handler
    converted          \* what the codec or the download handler made of it

vars == <<originalImage, prompt, editedImage, finalImage, isLoading, isEnhancing, error,
          isCropModalOpen, crop, completedCrop, croppedImageUrl,
          originalDimensions, resizeOptions, contrast, apiKey, requests,
          pendingFilters, loads, events, budget, lastOp, dataUrl, converted>>

\* A handler run on a user's event, and a continuation run on a completion.
\* kind: the invocation a step belongs to ("generate", "enhance"), or what fired it.
UserEvent(op, kind) ==
    /\ events < budget
    /\ events' = events + 1
    /\ budget' = budget
    /\ lastOp' = [op |-> op, kind |-> kind]
    /\ UNCHANGED <<dataUrl, converted>>
Completion(op, kind) ==
    /\ events' = events
    /\ budget' = budget
    /\ lastOp' = [op |-> op, kind |-> kind]
    /\ UNCHANGED <<dataUrl, converted>>

cropVars == <<isCropModalOpen, crop, completedCrop, croppedImageUrl>>
statusVars == <<isLoading, isEnhancing, error>>

\* The state of the component when it is mounted.
Mounted ==
    /\ originalImage = NoFile
    /\ prompt = ""
    /\ editedImage = Null
    /\ finalImage = Null
    /\ isLoading = FALSE
    /\ isEnhancing = FALSE
    /\ error = NoError
    /\ isCropModalOpen = FALSE
    /\ crop = Null
    /\ completedCrop = Null
    /\ croppedImageUrl = Null
    /\ originalDimensions = Null
    /\ resizeOptions = [mode |-> "percentage", percentage |-> 100, width |-> 0,
                        height |-> 0, isAspectRatioLocked |-> TRUE]
    /\ contrast = 100
    /\ apiKey \in BOOLEAN
    /\ requests = {}
    /\ pendingFilters = {}
    /\ loads = <<>>
    /\ events = 0
    /\ lastOp = [op |-> "mount", kind |-> "mount"]
    /\ converted = Null

Init == Mounted /\ budget = MaxEvents /\ dataUrl = <<>>

\* ------------------------------------------------- the adjustment effect
\* The effect's cleanup: isMounted = false in the closure of the last run.
Cleanup(S) == {[k EXCEPT !.isMounted = FALSE] : k \in S}

\* Mutant of NeedsFilter: the filter is applied at every contrast.
NeedsFilter_Always(c) == TRUE

\* if (contrast !== 100): the effect calls applyCanvasFilter.
NeedsFilter(c) == c # 100

\* Mutant of ClearedFinal: the effect returns without setFinalImage(null).
ClearedFinal_Stale == finalImage

\* if (!editedImage) { setFinalImage(null); return; }
ClearedFinal == Null

\* useEffect(..., [editedImage, contrast]) after a render in which editedImage
\* is e and contrast is c: it runs when a dependency changed.
AdjustmentEffect(e, c) ==
    IF e = editedImage /\ c = contrast
    THEN UNCHANGED <<finalImage, pendingFilters>>
    ELSE IF e = Null
    THEN /\ finalImage' = ClearedFinal
         /\ pendingFilters' = Cleanup(pendingFilters)
    ELSE IF NeedsFilter(c)
    THEN /\ Cardinality(Cleanup(pendingFilters)) < MaxPendingFilters
         /\ finalImage' = finalImage
         /\ pendingFilters' = Cleanup(pendingFilters) \cup
                {[img |-> e, contrast |-> c, isMounted |-> TRUE]}
    ELSE /\ finalImage' = e
         /\ pendingFilters' = Cleanup(pendingFilters)

\* Mutant of WritesFinal: the result is stored without looking at isMounted.
WritesFinal_Always(k) == TRUE

\* if (isMounted) setFinalImage(...)
WritesFinal(k) == k.isMounted

\* Mutant of FilterFallback: the catch block only logs the failure.
FilterFallback_LogOnly(k) == finalImage

\* setFinalImage(editedImage) of the catch block: editedImage as closed over.
FilterFallback(k) == k.img

\* Which computation a completion belongs to: one started for another
\* (editedImage, contrast) than the current one ("stale filter"), the one the
\* last run of the effect started ("filter"), or an earlier one for the same pair.
FilterKind(k) ==
    IF k.img # editedImage \/ k.contrast # contrast THEN "stale filter"
    ELSE IF k.isMounted THEN "filter"
    ELSE "earlier filter"

\* A pending applyCanvasFilter call resolves (ok) or rejects.
FilterDone(k, ok) ==
    /\ Completion(IF ok THEN "FilterResolved" ELSE "FilterRejected", FilterKind(k))
    /\ k \in pendingFilters
    /\ pendingFilters' = pendingFilters \ {k}
    /\ finalImage' = IF WritesFinal(k)
                     THEN (IF ok THEN applyCanvasFilter(k.img, k.contrast)
                           ELSE FilterFallback(k))
                     ELSE finalImage
    /\ UNCHANGED <<originalImage, prompt, editedImage, statusVars, cropVars,
                   originalDimensions, resizeOptions, contrast, apiKey, requests, loads>>

\* ------------------------------------------------------------- upload
\* Mutant of ResetContrast: the upload handler leaves the contrast as it is.
ResetContrast_Kept == contrast

\* setContrast(100) of handleImageChange.
ResetContrast == 100

handleImageChange(f) ==
    /\ UserEvent("handleImageChange", "user")
    /\ Len(loads) < MaxLoads
    /\ originalImage' = f
    /\ editedImage' = Null
    /\ error' = NoError
    /\ croppedImageUrl' = Null
    /\ crop' = Null
    /\ completedCrop' = Null
    /\ contrast' = ResetContrast
    /\ loads' = Append(loads, [kind |-> "upload", file |-> f])
    /\ AdjustmentEffect(Null, ResetContrast)
    /\ UNCHANGED <<prompt, isLoading, isEnhancing, isCropModalOpen,
                   originalDimensions, resizeOptions, apiKey, requests>>

\* img.onload of the Image() created by handleImageChange ("upload") or by
\* handleResetCrop ("reset"); pending loads fire in any order.
RemoveAt(q, i) == [j \in 1..(Len(q) - 1) |-> IF j < i THEN q[j] ELSE q[j + 1]]

ImgOnload(i) ==
    /\ Completion("ImgOnload", "load")
    /\ i \in 1..Len(loads)
    /\ originalDimensions' = FileDims(loads[i].file)
    /\ resizeOptions' = IF loads[i].kind = "upload"
                        THEN [resizeOptions EXCEPT !.width = FileDims(loads[i].file).width,
                                                   !.height = FileDims(loads[i].file).height,
                                                   !.percentage = 100]
                        ELSE resizeOptions
    /\ loads' = RemoveAt(loads, i)
    /\ UNCHANGED <<originalImage, prompt, editedImage, finalImage, statusVars, cropVars,
                   contrast, apiKey, requests, pendingFilters>>

\* ------------------------------------------------------- prompt, contrast
\* <textarea disabled={!originalImage} onChange={(e) => setPrompt(e.target.value)}>
SetPrompt(p) ==
    /\ UserEvent("SetPrompt", "user")
    /\ originalImage # NoFile
    /\ prompt' = p
    /\ UNCHANGED <<originalImage, editedImage, finalImage, statusVars, cropVars,
                   originalDimensions, resizeOptions, contrast, apiKey, requests,
                   pendingFilters, loads>>

\* <fieldset disabled={!editedImage}> ... onChange={e => setContrast(e.target.valueAsNumber)}
SetContrast(c) ==
    /\ UserEvent("SetContrast", "user")
    /\ editedImage # Null
    /\ contrast' = c
    /\ AdjustmentEffect(editedImage, c)
    /\ UNCHANGED <<originalImage, prompt, editedImage, statusVars, cropVars,
                   originalDimensions, resizeOptions, apiKey, requests, loads>>

\* ------------------------------------------------------------------ crop
OpenCropModal ==
    /\ UserEvent("OpenCropModal", "user")
    /\ originalImage # NoFile
    /\ isCropModalOpen' = TRUE
    /\ UNCHANGED <<originalImage, prompt, editedImage, finalImage, statusVars, crop,
                   completedCrop, croppedImageUrl, originalDimensions, resizeOptions,
                   contrast, apiKey, requests, pendingFilters, loads>>

\* <ReactCrop onChange={c => setCrop(c)} onComplete={c => setCompletedCrop(c)}>:
\* a drag ends with onChange and onComplete called with the same selection.
CropDrag(r) ==
    /\ UserEvent("CropDrag", "user")
    /\ isCropModalOpen
    /\ crop' = r
    /\ completedCrop' = r
    /\ UNCHANGED <<originalImage, prompt, editedImage, finalImage, statusVars,
                   isCropModalOpen, croppedImageUrl, originalDimensions,
                   resizeOptions, contrast, apiKey, requests, pendingFilters, loads>>

CancelCrop ==
    /\ UserEvent("CancelCrop", "user")
    /\ isCropModalOpen
    /\ isCropModalOpen' = FALSE
    /\ UNCHANGED <<originalImage, prompt, editedImage, finalImage, statusVars, crop,
                   completedCrop, croppedImageUrl, originalDimensions, resizeOptions,
                   contrast, apiKey, requests, pendingFilters, loads>>

handleApplyCrop ==
    /\ UserEvent("handleApplyCrop", "user")
    /\ isCropModalOpen
    /\ IF completedCrop = Null
       THEN UNCHANGED <<croppedImageUrl, originalDimensions, resizeOptions, isCropModalOpen>>
       ELSE /\ croppedImageUrl' = CropDataUrl(originalImage, completedCrop)
            /\ originalDimensions' = [width |-> completedCrop.width,
                                      height |-> completedCrop.height]
            /\ resizeOptions' = [resizeOptions EXCEPT !.width = completedCrop.width,
                                                      !.height = completedCrop.height,
                                                      !.percentage = 100]
            /\ isCropModalOpen' = FALSE
    /\ UNCHANGED <<originalImage, prompt, editedImage, finalImage, statusVars, crop,
                   completedCrop, contrast, apiKey, requests, pendingFilters, loads>>

\* The Reset button is rendered when showReset={!!croppedImageUrl}.
handleResetCrop ==
    /\ UserEvent("handleResetCrop", "user")
    /\ croppedImageUrl # Null
    /\ Len(loads) < MaxLoads
    /\ croppedImageUrl' = Null
    /\ loads' = IF originalImage # NoFile
                THEN Append(loads, [kind |-> "reset", file |-> originalImage])
                ELSE loads
    /\ UNCHANGED <<originalImage, prompt, editedImage, finalImage, statusVars,
                   isCropModalOpen, crop, completedCrop, originalDimensions,
                   resizeOptions, contrast, apiKey, requests, pendingFilters>>

\* --------------------------------------------------------------- resize
\* Number values that are no integers.
NaN == -9999
Infinity == 9999

\* Math.round(n / d) for d > 0: halves round up.
RoundDiv(n, d) == (2 * n + d) \div (2 * d)

\* Math.round(n * (a / b)) for n, a, b >= 0; a / 0 is Infinity or NaN.
RoundScaled(n, a, b) ==
    IF b = 0
    THEN (IF a = 0 \/ n = 0 THEN NaN ELSE Infinity)
    ELSE RoundDiv(n * a, b)

\* completedCrop ?? originalDimensions
SourceDims == IF completedCrop # Null THEN completedCrop ELSE originalDimensions

\* Mutant of resizeVarsUnchanged: the resize handlers also call setError(null).
resizeVarsUnchanged_ClearsError ==
    /\ error' = NoError
    /\ UNCHANGED <<originalImage, prompt, editedImage, finalImage, isLoading, isEnhancing,
                   cropVars, originalDimensions, contrast, apiKey, requests,
                   pendingFilters, loads>>

\* The resize handlers call setResizeOptions and nothing else.
resizeVarsUnchanged ==
    UNCHANGED <<originalImage, prompt, editedImage, finalImage, statusVars, cropVars,
                originalDimensions, contrast, apiKey, requests, pendingFilters, loads>>

handleResizeModeChange(mode) ==
    /\ UserEvent("handleResizeModeChange", "user")
    /\ originalImage # NoFile
    /\ resizeOptions' = [resizeOptions EXCEPT !.mode = mode]
    /\ resizeVarsUnchanged

\* The range input is rendered in percentage mode.
handlePercentageChange(p) ==
    /\ UserEvent("handlePercentageChange", "user")
    /\ originalImage # NoFile
    /\ resizeOptions.mode = "percentage"
    /\ resizeOptions' = [resizeOptions EXCEPT !.percentage = p]
    /\ resizeVarsUnchanged

\* The width, height and lock controls are rendered in dimensions mode.
handleWidthChange(newWidth) ==
    /\ UserEvent("handleWidthChange", "user")
    /\ originalImage # NoFile
    /\ resizeOptions.mode = "dimensions"
    /\ resizeOptions' =
          IF resizeOptions.isAspectRatioLocked /\ SourceDims # Null
          THEN [resizeOptions EXCEPT
                  !.width = newWidth,
                  !.height = RoundScaled(newWidth, SourceDims.height, SourceDims.width)]
          ELSE [resizeOptions EXCEPT !.width = newWidth]
    /\ resizeVarsUnchanged

handleHeightChange(newHeight) ==
    /\ UserEvent("handleHeightChange", "user")
    /\ originalImage # NoFile
    /\ resizeOptions.mode = "dimensions"
    /\ resizeOptions' =
          IF resizeOptions.isAspectRatioLocked /\ SourceDims # Null
          THEN [resizeOptions EXCEPT
                  !.height = newHeight,
                  !.width = RoundScaled(newHeight, SourceDims.width, SourceDims.height)]
          ELSE [resizeOptions EXCEPT !.height = newHeight]
    /\ resizeVarsUnchanged

toggleAspectRatioLock ==
    /\ UserEvent("toggleAspectRatioLock", "user")
    /\ originalImage # NoFile
    /\ resizeOptions.mode = "dimensions"
    /\ resizeOptions' = [resizeOptions EXCEPT !.isAspectRatioLocked = ~@]
    /\ resizeVarsUnchanged

\* The isResizingNeeded memo.
isResizingNeeded ==
    IF originalDimensions = Null THEN FALSE
    ELSE LET sourceWidth == IF completedCrop # Null THEN completedCrop.width
                            ELSE originalDimensions.width
             sourceHeight == IF completedCrop # Null THEN completedCrop.height
                             ELSE originalDimensions.height
         IN  \/ resizeOptions.mode = "percentage" /\ resizeOptions.percentage # 100
             \/ /\ resizeOptions.mode = "dimensions"
                /\ (resizeOptions.width # sourceWidth \/ resizeOptions.height # sourceHeight)

\* What processAndSetImage, as closed over by the click handler, will do with the
\* returned image: whether it computes a target size (needed), and whether it
\* then resizes the image to width x height or stores it as returned.
ResizePlan ==
    IF isResizingNeeded /\ originalDimensions # Null
    THEN LET sourceWidth == IF completedCrop # Null THEN completedCrop.width
                            ELSE originalDimensions.width
             sourceHeight == IF completedCrop # Null THEN completedCrop.height
                             ELSE originalDimensions.height
             targetWidth == IF resizeOptions.mode = "percentage"
                            THEN RoundDiv(sourceWidth * resizeOptions.percentage, 100)
                            ELSE resizeOptions.width
             targetHeight == IF resizeOptions.mode = "percentage"
                             THEN RoundDiv(sourceHeight * resizeOptions.percentage, 100)
                             ELSE resizeOptions.height
         IN  [needed |-> TRUE, resize |-> targetWidth > 0 /\ targetHeight > 0,
              width |-> targetWidth, height |-> targetHeight]
    ELSE [needed |-> FALSE, resize |-> FALSE, width |-> 0, height |-> 0]

\* ------------------------------------------------- generate, auto enhance
\* Mutant of EnhanceDisabled: the button is not disabled while Generate runs.
EnhanceDisabled_OwnFlagOnly == isEnhancing \/ originalImage = NoFile

\* disabled={isLoading || isEnhancing || !originalImage} of the Auto Enhance button
EnhanceDisabled == isLoading \/ isEnhancing \/ originalImage = NoFile

\* disabled={isLoading || isEnhancing || !originalImage || !prompt.trim()} of Generate
GenerateDisabled == isLoading \/ isEnhancing \/ originalImage = NoFile \/ Trim(prompt) = ""

\* setIsLoading / setIsEnhancing of the handler of the given kind.
SetFlag(kind, v) ==
    /\ isLoading' = IF kind = "generate" THEN v ELSE isLoading
    /\ isEnhancing' = IF kind = "enhance" THEN v ELSE isEnhancing

ErrNoResult(kind) == IF kind = "generate" THEN ErrNoResultGenerate ELSE ErrNoResultEnhance

\* Mutant of Catch: the flag is cleared on the success path only (no finally).
Catch_NoFinally(r, message) ==
    /\ error' = message
    /\ requests' = requests \ {r}
    /\ UNCHANGED <<editedImage, finalImage, pendingFilters, isLoading, isEnhancing>>

\* catch (err) { setError(err.message || ...) } finally { setIsLoading(false) }
Catch(r, message) ==
    /\ error' = message
    /\ SetFlag(r.kind, FALSE)
    /\ requests' = requests \ {r}
    /\ UNCHANGED <<editedImage, finalImage, pendingFilters>>

\* Mutant of RequestStartResult: the handler forgets setEditedImage(null).
RequestStartResult_Kept == editedImage

\* setEditedImage(null) at the start of a request.
RequestStartResult == Null

\* The handler from setIsLoading(true) up to its first pending promise; calls
\* counts the generateContent calls the invocation has issued.  The
\* decoding error of a cropped image and the missing API key are raised before
\* anything is awaited on an event, so the catch and finally run in the same step.
StartRequest(kind, instruction) ==
    LET part == IF croppedImageUrl # Null THEN CropPart(croppedImageUrl)
                ELSE Null
        r == [kind |-> kind, instruction |-> instruction, plan |-> ResizePlan,
              file |-> originalImage, part |-> part, img |-> Null,
              phase |-> IF croppedImageUrl # Null THEN "calling" ELSE "reading",
              calls |-> IF croppedImageUrl # Null THEN 1 ELSE 0]
    IN  /\ Cardinality(requests) < MaxRequests
        /\ editedImage' = RequestStartResult
        /\ AdjustmentEffect(RequestStartResult, contrast)
        /\ IF croppedImageUrl # Null /\ part = Null
           THEN /\ error' = ErrInvalidDataUrl
                /\ SetFlag(kind, FALSE)
                /\ UNCHANGED requests
           ELSE IF croppedImageUrl # Null /\ ~apiKey
           THEN /\ error' = ErrApiKey
                /\ SetFlag(kind, FALSE)
                /\ UNCHANGED requests
           ELSE IF croppedImageUrl = Null /\ originalImage = NoFile
           THEN /\ error' = ErrNoImageAvailable
                /\ SetFlag(kind, FALSE)
                /\ UNCHANGED requests
           ELSE /\ error' = NoError
                /\ SetFlag(kind, TRUE)
                /\ requests' = requests \cup {r}

\* Mutant of GenerateInvalid: the prompt is tested without trim().
GenerateInvalid_NoTrim == (originalImage = NoFile /\ croppedImageUrl = Null) \/ prompt = ""

\* if ((!originalImage && !croppedImageUrl) || !prompt.trim())
GenerateInvalid == (originalImage = NoFile /\ croppedImageUrl = Null) \/ Trim(prompt) = ""

\* if (!originalImage && !croppedImageUrl)
EnhanceInvalid == originalImage = NoFile /\ croppedImageUrl = Null

\* The handler of the Generate button, whoever calls it.
GenerateHandler ==
    /\ UserEvent("handleGenerateClick", "generate")
    /\ IF GenerateInvalid
       THEN /\ error' = ErrGeneratePrecondition
            /\ UNCHANGED <<editedImage, finalImage, isLoading, isEnhancing, requests,
                           pendingFilters>>
       ELSE StartRequest("generate", prompt)
    /\ UNCHANGED <<originalImage, prompt, cropVars, originalDimensions, resizeOptions,
                   contrast, apiKey, loads>>

\* The handler of the Auto Enhance button, whoever calls it.
EnhanceHandler ==
    /\ UserEvent("handleEnhanceClick", "enhance")
    /\ IF EnhanceInvalid
       THEN /\ error' = ErrEnhancePrecondition
            /\ UNCHANGED <<editedImage, finalImage, isLoading, isEnhancing, requests,
                           pendingFilters>>
       ELSE StartRequest("enhance", ENHANCE_PROMPT)
    /\ UNCHANGED <<originalImage, prompt, cropVars, originalDimensions, resizeOptions,
                   contrast, apiKey, loads>>

\* A click on the button: the handler runs while the button is enabled.
handleGenerateClick == ~GenerateDisabled /\ GenerateHandler

handleEnhanceClick == ~EnhanceDisabled /\ EnhanceHandler

requestVarsUnchanged ==
    UNCHANGED <<originalImage, prompt, cropVars, originalDimensions, resizeOptions,
                contrast, apiKey, loads>>

\* The FileReader of fileToGenerativePart fires onload (with or without a base64
\* segment) or onerror; on a part, editImageWithGemini checks the API key and
\* starts the remote call.
ReadOutcomes == {"part", "empty", "error"}
ReadResult(f, outcome) == IF outcome = "part" THEN FileDataUrl(f) ELSE EmptyFileDataUrl

\* result is reader.result, imagePart what the awaited conversion resolves to.
ReadDone(r, outcome) ==
    /\ Completion("ReadDone", r.kind)
    /\ r \in requests
    /\ r.phase = "reading"
    /\ IF outcome = "error" THEN Catch(r, ErrUnexpected)
       ELSE \E result \in {ReadResult(r.file, outcome)} :
            \E imagePart \in {fileToGenerativePart(FileType(r.file), result)} :
           IF imagePart.kind = "throw" THEN Catch(r, imagePart.message)
           ELSE IF ~apiKey THEN Catch(r, ErrApiKey)
           ELSE /\ requests' = (requests \ {r}) \cup
                        {[r EXCEPT !.phase = "calling",
                                   !.part = FilePart(r.file, imagePart),
                                   !.calls = @ + 1]}
                /\ UNCHANGED <<editedImage, finalImage, statusVars, pendingFilters>>
    /\ requestVarsUnchanged

\* setEditedImage(url) of processAndSetImage, then the handler's finally.
StoreResult(r, img) ==
    /\ editedImage' = img
    /\ AdjustmentEffect(img, contrast)
    /\ SetFlag(r.kind, FALSE)
    /\ requests' = requests \ {r}
    /\ UNCHANGED error

\* Mutant of RemoteThrew: the catch block of editImageWithGemini calls
\* generateContent a second time before it gives up.
RemoteThrew_Retry(r, message) ==
    IF r.calls < 2
    THEN /\ requests' = (requests \ {r}) \cup {[r EXCEPT !.calls = @ + 1]}
         /\ UNCHANGED <<editedImage, finalImage, statusVars, pendingFilters>>
    ELSE Catch(r, message)

\* The error editImageWithGemini rethrows from its catch block reaches the
\* catch block of the handler: setError(err.message || ...).
RemoteThrew(r, message) == Catch(r, IF message = "" THEN ErrUnexpected ELSE message)

\* ai.models.generateContent returns an image part, returns none, or throws an
\* Error with a message or a value that is no Error.
RemoteOutcomes == {[result |-> "image", mime |-> m] : m \in RemoteMimes}
                      \cup {[result |-> "none"],
                            [result |-> "throw", isError |-> TRUE, message |-> RemoteFailure],
                            [result |-> "throw", isError |-> FALSE, message |-> ""]}

\* Mutant of NoImage: the missing image is thrown inside the try block, so the
\* catch block wraps it as a remote error.
NoImage_Thrown ==
    [kind |-> "throw", message |-> ErrGeminiPrefix \o "No image in the response."]

\* return null, after the loop over the response parts found no inlineData.
NoImage == [kind |-> "return", value |-> Null]

\* editImageWithGemini from the moment generateContent settled: what it returns
\* or throws.
editImageWithGemini(imagePart, outcome) ==
    IF outcome.result = "throw"
    THEN [kind |-> "throw",
          message |-> IF outcome.isError THEN ErrGeminiPrefix \o outcome.message
                      ELSE ErrGeminiUnknown]
    ELSE IF outcome.result = "none" THEN NoImage
    ELSE [kind |-> "return", value |-> RemoteImage(imagePart, outcome.mime)]

RemoteDone(r, outcome) ==
    /\ Completion("RemoteDone", r.kind)
    /\ r \in requests
    /\ r.phase = "calling"
    /\ LET editedImageUrl == editImageWithGemini(r.part, outcome)
       IN  IF editedImageUrl.kind = "throw" THEN RemoteThrew(r, editedImageUrl.message)
           ELSE IF editedImageUrl.value = Null THEN Catch(r, ErrNoResult(r.kind))
           ELSE IF r.plan.resize
           THEN /\ requests' = (requests \ {r}) \cup
                        {[r EXCEPT !.phase = "resizing", !.img = editedImageUrl.value]}
                /\ UNCHANGED <<editedImage, finalImage, statusVars, pendingFilters>>
           ELSE StoreResult(r, editedImageUrl.value)
    /\ requestVarsUnchanged

\* resizeImage resolves, or rejects when the image does not load.
ResizeDone(r, ok) ==
    /\ Completion("ResizeDone", r.kind)
    /\ r \in requests
    /\ r.phase = "resizing"
    /\ IF ok THEN StoreResult(r, resizeImage(r.img, r.plan.width, r.plan.height))
       ELSE Catch(r, ErrResizeLoad)
    /\ requestVarsUnchanged

Next ==
    \/ \E f \in Files : handleImageChange(f)
    \/ \E i \in 1..MaxLoads : ImgOnload(i)
    \/ \E p \in Prompts : SetPrompt(p)
    \/ \E c \in Contrasts : SetContrast(c)
    \/ OpenCropModal
    \/ \E r \in CropRects : CropDrag(r)
    \/ CancelCrop
    \/ handleApplyCrop
    \/ handleResetCrop
    \/ \E m \in {"percentage", "dimensions"} : handleResizeModeChange(m)
    \/ \E p \in Percentages : handlePercentageChange(p)
    \/ \E w \in WidthInputs : handleWidthChange(w)
    \/ \E h \in WidthInputs : handleHeightChange(h)
    \/ toggleAspectRatioLock
    \/ handleGenerateClick
    \/ handleEnhanceClick
    \/ \E r \in requests, o \in ReadOutcomes : ReadDone(r, o)
    \/ \E r \in requests, o \in RemoteOutcomes : RemoteDone(r, o)
    \/ \E r \in requests, ok \in BOOLEAN : ResizeDone(r, ok)
    \/ \E k \in pendingFilters, ok \in BOOLEAN : FilterDone(k, ok)

Spec == Init /\ [][Next]_vars

\* ------------------------------------------------------------------ claims
\* A handler invocation of the given kind has just ended: its last step ran
\* and its in-flight flag is clear.
Ended(kind) ==
    /\ lastOp.kind = kind
    /\ IF kind = "generate" THEN ~isLoading ELSE ~isEnhancing

\* C1: an invocation of Generate that passed its precondition ends either with
\* an Edit Result and no error, or with an error and no Edit Result: never
\* both, never neither.
C1_GenerateOneOutcome ==
    (Ended("generate") /\ error # ErrGeneratePrecondition)
        => \/ editedImage # Null /\ error = NoError
           \/ editedImage = Null /\ error # NoError

\* A Generate invocation ended after its resize step stored the resized image.
C1_Witness ==
    /\ lastOp = [op |-> "ResizeDone", kind |-> "generate"]
    /\ ~isLoading
    /\ editedImage # Null
    /\ editedImage.size # <<0, 0>>

\* C2: generating and enhancing are never both true, at most one handler
\* invocation (so at most one remote call) is in flight, and a click on Generate
\* or Auto Enhance is handled only while the other flag is false, whatever the
\* user does while a call is pending.
C2_OneInFlight ==
    /\ ~(isLoading /\ isEnhancing)
    /\ Cardinality(requests) <= 1
    /\ \A r \in requests : IF r.kind = "generate" THEN isLoading ELSE isEnhancing
    /\ lastOp.op = "handleGenerateClick" => ~isEnhancing
    /\ lastOp.op = "handleEnhanceClick" => ~isLoading

\* The user picked another file while the remote call of a Generate is pending.
C2_Witness ==
    /\ lastOp.op = "handleImageChange"
    /\ isLoading
    /\ \E r \in requests : r.phase = "calling" /\ r.file # originalImage

\* ------------------------------------------------------------- liveness
\* Every pending file read, remote call and resize resolves or rejects.
Fairness ==
    /\ WF_vars(\E r \in requests, o \in ReadOutcomes : ReadDone(r, o))
    /\ WF_vars(\E r \in requests, o \in RemoteOutcomes : RemoteDone(r, o))
    /\ WF_vars(\E r \in requests, ok \in BOOLEAN : ResizeDone(r, ok))

LiveInit == Mounted /\ budget = MaxLiveEvents /\ dataUrl = <<>>

LiveSpec == LiveInit /\ [][Next]_vars /\ Fairness

\* C3: once generating or enhancing, the controller returns to idle with the
\* flag cleared when the pending steps complete; and when an invocation ended
\* in an error, Auto Enhance is enabled again, and Generate too while the
\* prompt is not blank.
C3_ReturnsToIdle ==
    /\ (isLoading \/ isEnhancing) ~> (~isLoading /\ ~isEnhancing)
    /\ [](((Ended("generate") \/ Ended("enhance")) /\ error # NoError)
            => (~EnhanceDisabled /\ (Trim(prompt) # "" => ~GenerateDisabled)))

\* A Generate invocation ended in the error of a failed remote call.
C3_Witness ==
    /\ lastOp = [op |-> "RemoteDone", kind |-> "generate"]
    /\ error = ErrGeminiPrefix \o RemoteFailure
    /\ ~isLoading /\ ~isEnhancing
    /\ ~GenerateDisabled

\* C4: a request whose source image was replaced by a new upload while it was
\* pending does not write Edit Result or error when it completes.
C4_StaleRequestDiscarded ==
    [][\A r \in requests :
          (r.file # originalImage /\ r \notin requests')
              => (editedImage' = editedImage /\ error' = error)]_vars

\* The computation the last run of the adjustment effect started is pending.
AdjustmentPending == \E k \in pendingFilters : k.isMounted

\* C5: while no adjustment is pending, Adjusted Result is determined by Edit
\* Result and contrast: null without an Edit Result, the Edit Result itself at
\* contrast 100, otherwise the Edit Result filtered at the current contrast, or
\* unfiltered when the filter failed; and finalImage changes only in a step
\* that runs the effect (Edit Result or contrast changed) or completes a filter.
C5_AdjustedIsDerived ==
    /\ [](~AdjustmentPending =>
            IF editedImage = Null THEN finalImage = Null
            ELSE IF contrast = 100 THEN finalImage = editedImage
            ELSE finalImage \in {applyCanvasFilter(editedImage, contrast), editedImage})
    /\ [][finalImage' # finalImage =>
            \/ editedImage' # editedImage
            \/ contrast' # contrast
            \/ lastOp'.op \in {"FilterResolved", "FilterRejected"}]_vars

\* The filter of the current Edit Result at a contrast other than 100 resolved.
C5_Witness ==
    /\ lastOp = [op |-> "FilterResolved", kind |-> "filter"]
    /\ editedImage # Null
    /\ contrast # 100
    /\ finalImage = applyCanvasFilter(editedImage, contrast)

\* C6: the completion of a filter computation that was started for another
\* (editedImage, contrast) pair than the current one leaves finalImage as it
\* is, whether the filter resolved or rejected.
C6_StaleAdjustmentDiscarded ==
    [][lastOp'.kind = "stale filter" => finalImage' = finalImage]_vars

\* A superseded filter completed after contrast was set back to 100: the
\* Adjusted Result is still the Edit Result.
C6_Witness ==
    /\ lastOp.kind = "stale filter"
    /\ editedImage # Null
    /\ finalImage = editedImage

\* C7: right after the upload handler the cropped image, the crop region, Edit
\* Result, error and Adjusted Result are cleared and contrast is 100.
C7_UploadResets ==
    lastOp.op = "handleImageChange" =>
        /\ croppedImageUrl = Null
        /\ crop = Null
        /\ completedCrop = Null
        /\ editedImage = Null
        /\ error = NoError
        /\ contrast = 100
        /\ finalImage = Null

\* An upload while a request made from an applied crop is pending: the crop
\* the request was made from is gone.
C7_Witness ==
    /\ lastOp.op = "handleImageChange"
    /\ \E r \in requests : r.part # Null /\ r.part.data.kind = "crop"
    /\ croppedImageUrl = Null

\* C8: Edit Result is null right after a click on Generate or Auto Enhance and
\* for as long as the invocation is in flight (reading, calling, resizing).
C8_NullWhileInFlight ==
    /\ (lastOp.op \in {"mount", "handleGenerateClick", "handleEnhanceClick"}
            /\ error \notin {ErrGeneratePrecondition, ErrEnhancePrecondition})
          => editedImage = Null
    /\ (requests # {} \/ isLoading \/ isEnhancing) => editedImage = Null

\* A second request waits on the remote call; the result of an earlier one had
\* been stored (its filter is still pending) and was cleared.
C8_Witness ==
    /\ \E r \in requests : r.phase = "calling"
    /\ pendingFilters # {}
    /\ editedImage = Null

\* C9: when the filter of the current Edit Result rejects, finalImage becomes
\* the unadjusted editedImage and error, isLoading and isEnhancing stay as
\* they are.
C9_FilterFailureFallsBack ==
    [][(lastOp'.op = "FilterRejected" /\ lastOp'.kind = "filter") =>
          /\ finalImage' = editedImage'
          /\ editedImage' # Null
          /\ error' = error
          /\ isLoading' = isLoading
          /\ isEnhancing' = isEnhancing]_vars

\* The filter of the current Edit Result rejected and the result is shown.
C9_Witness ==
    /\ lastOp = [op |-> "FilterRejected", kind |-> "filter"]
    /\ contrast # 100
    /\ finalImage = editedImage
    /\ finalImage # Null

\* C10: at contrast 100 the Adjusted Result is exactly the Edit Result, and no
\* filter call is ever made for contrast 100.
C10_ContrastIdentity ==
    /\ (contrast = 100 /\ editedImage # Null) =>
          (finalImage = editedImage /\ ~AdjustmentPending)
    /\ \A k \in pendingFilters : k.contrast # 100

\* The user set the contrast back to 100 while a filter was pending.
C10_Witness ==
    /\ lastOp.op = "SetContrast"
    /\ contrast = 100
    /\ editedImage # Null
    /\ pendingFilters # {}

\* Pixel size of the current Working Image: the cropped image while a crop is
\* applied, otherwise the picked file.
WorkingDims ==
    IF croppedImageUrl # Null
    THEN [width |-> croppedImageUrl.width, height |-> croppedImageUrl.height]
    ELSE FileDims(originalImage)

\* C11: a request started in percentage mode with a percentage p other than
\* 100, once the size of the image is known, will resize the returned image to
\* (round(W * p / 100), round(H * p / 100)), W x H being the size of the Working
\* Image, whatever crop actions came before.
C11_PercentageTarget ==
    (/\ lastOp.op \in {"handleGenerateClick", "handleEnhanceClick"}
     /\ loads = <<>>
     /\ resizeOptions.mode = "percentage"
     /\ resizeOptions.percentage # 100)
        => \A r \in requests :
              r.plan = [needed |-> TRUE, resize |-> TRUE,
                        width |-> RoundDiv(WorkingDims.width * resizeOptions.percentage, 100),
                        height |-> RoundDiv(WorkingDims.height * resizeOptions.percentage, 100)]

\* C12: without the API key no invocation ever issues a remote call and the
\* edit ends in the configuration error; with it, an invocation that reached
\* editImageWithGemini has issued exactly one remote call, and after the call
\* settles (image, no image or failure) none is pending: it is not retried.
C12_OneCallPerInvocation ==
    /\ \A r \in requests : r.calls = IF r.phase = "reading" THEN 0 ELSE 1
    /\ ~apiKey => \A r \in requests : r.phase = "reading"
    /\ (/\ ~apiKey
        /\ lastOp.op \in {"handleGenerateClick", "handleEnhanceClick"}
        /\ croppedImageUrl # Null
        /\ CropPart(croppedImageUrl) # Null)
          => (error = ErrApiKey /\ requests = {})
    /\ (~apiKey /\ lastOp.op = "ReadDone")
          => (error \in {ErrApiKey, ErrReadBase64, ErrUnexpected} /\ requests = {})
    /\ lastOp.op = "RemoteDone" => \A r \in requests : r.phase # "calling"

\* The remote call of an Auto Enhance failed: the invocation ended with the
\* wrapped error and nothing is pending.
C12_Witness ==
    /\ apiKey
    /\ lastOp = [op |-> "RemoteDone", kind |-> "enhance"]
    /\ error = ErrGeminiPrefix \o RemoteFailure
    /\ requests = {}

\* C13: the three failure kinds of the edit path give three different errors.
\* Without the API key the error is the configuration message itself, not
\* wrapped; a remote call that throws an Error gives the remote-error prefix
\* followed by the original message (a thrown value that is no Error gives the
\* unknown-error text); a remote call that succeeds without an image gives the
\* handler's own 'did not return an image' message, not a wrapped one.
C13_FailureKinds ==
    [][/\ \A r \in requests, o \in RemoteOutcomes :
             RemoteDone(r, o) =>
                /\ o.result = "none" => error' = ErrNoResult(r.kind)
                /\ (o.result = "throw" /\ o.isError)
                      => error' = ErrGeminiPrefix \o o.message
                /\ (o.result = "throw" /\ ~o.isError) => error' = ErrGeminiUnknown
                /\ o.result = "image" => error' = error
                /\ error' \notin {ErrApiKey, ErrGeminiPrefix \o ErrApiKey}
       /\ \A r \in requests :
             (ReadDone(r, "part") /\ ~apiKey) => error' = ErrApiKey
       /\ ((handleGenerateClick \/ handleEnhanceClick)
              /\ ~apiKey /\ croppedImageUrl # Null
              /\ CropPart(croppedImageUrl) # Null)
             => error' = ErrApiKey]_vars

\* The remote call of a Generate succeeded without an image.
C13_Witness ==
    /\ lastOp = [op |-> "RemoteDone", kind |-> "generate"]
    /\ error = ErrNoResultGenerate
    /\ editedImage = Null
    /\ ~isLoading

\* ------------------------------------------------- the codec on any text
\* The codec functions applied to a text of the bounded set; these runs are
\* explored on their own, without user events.
codecUnchanged ==
    UNCHANGED <<originalImage, prompt, editedImage, finalImage, statusVars, cropVars,
                originalDimensions, resizeOptions, contrast, apiKey, requests,
                pendingFilters, loads, events, budget, dataUrl>>

ConvertDataUrl ==
    /\ budget = 0
    /\ converted = Null
    /\ converted' = [fn |-> "dataUrlToGenerativePart", fileType |-> "",
                     result |-> dataUrlToGenerativePart(dataUrl)]
    /\ lastOp' = [op |-> "ConvertDataUrl", kind |-> "codec"]
    /\ codecUnchanged

ConvertFileRead(f) ==
    /\ budget = 0
    /\ converted = Null
    /\ converted' = [fn |-> "fileToGenerativePart", fileType |-> FileType(f),
                     result |-> fileToGenerativePart(FileType(f), dataUrl)]
    /\ lastOp' = [op |-> "ConvertFileRead", kind |-> "codec"]
    /\ codecUnchanged

CodecInit ==
    /\ Mounted
    /\ \/ budget = MaxCodecEvents /\ dataUrl = <<>>
       \/ budget = 0 /\ dataUrl \in DataUrlInputs

CodecNext ==
    \/ Next
    \/ ConvertDataUrl
    \/ \E f \in Files : ConvertFileRead(f)

CodecSpec == CodecInit /\ [][CodecNext]_vars

\* Position i holds the first comma of s.
FirstComma(s, i) == s[i] = "," /\ \A k \in 1..(i - 1) : s[k] # ","

\* s has no comma, or nothing between its first comma and the next one (or its end).
NoSegment(s) ==
    \/ \A i \in 1..Len(s) : s[i] # ","
    \/ \E i \in 1..Len(s) : FirstComma(s, i) /\ (i = Len(s) \/ s[i + 1] = ",")

\* text is the segment of s after its first comma.
IsSegment(s, text) ==
    \E i \in 1..Len(s), j \in 1..Len(s) :
        /\ FirstComma(s, i)
        /\ j > i
        /\ \A k \in (i + 1)..j : s[k] # ","
        /\ j = Len(s) \/ s[j + 1] = ","
        /\ text = SubSeq(s, i + 1, j)

\* mime is what stands between the first "data:" of s and the next ";", or
\* image/png when s has no such header.
IsHeaderMime(s, mime) ==
    IF \E d \in 1..Len(s), e \in 1..Len(s) : d < e /\ s[d] = "data:" /\ s[e] = ";"
    THEN \E d \in 1..Len(s), e \in 1..Len(s) :
            /\ d < e
            /\ s[d] = "data:" /\ \A k \in 1..(d - 1) : s[k] # "data:"
            /\ s[e] = ";" /\ \A k \in (d + 1)..(e - 1) : s[k] # ";"
            /\ mime = SubSeq(s, d + 1, e - 1)
    ELSE mime = <<"image/png">>

\* C14: dataUrlToGenerativePart throws the decoding error for every text
\* without a comma or with nothing after its first comma, and otherwise returns
\* the segment after the first comma with the MIME type of the data:<mime>;
\* header (image/png without one); fileToGenerativePart rejects in the same
\* cases and otherwise keeps the type of the file.  When the conversion fails
\* in Generate or Auto Enhance, no remote call is made, error is set and the
\* in-flight flag is cleared.
C14_DecodeFailure ==
    /\ [](converted # Null =>
            IF NoSegment(dataUrl)
            THEN converted.result =
                    [kind |-> "throw",
                     message |-> IF converted.fn = "dataUrlToGenerativePart"
                                 THEN ErrInvalidDataUrl ELSE ErrReadBase64]
            ELSE /\ converted.result.kind = "part"
                 /\ IsSegment(dataUrl, converted.result.data)
                 /\ IF converted.fn = "dataUrlToGenerativePart"
                    THEN IsHeaderMime(dataUrl, converted.result.mimeType)
                    ELSE converted.result.mimeType = converted.fileType)
    /\ [][/\ ((handleGenerateClick \/ handleEnhanceClick)
               /\ croppedImageUrl # Null
               /\ NoSegment(CanvasDataUrl(croppedImageUrl)))
              => /\ error' = ErrInvalidDataUrl
                 /\ requests' = {}
                 /\ ~isLoading' /\ ~isEnhancing'
          /\ \A r \in requests :
                ReadDone(r, "empty")
                  => /\ error' = ErrReadBase64
                     /\ requests' = {}
                     /\ ~isLoading' /\ ~isEnhancing']_vars

\* The converter threw on a text with nothing between its first and second
\* comma, although text follows the second.
C14_Witness ==
    /\ converted # Null
    /\ converted.fn = "dataUrlToGenerativePart"
    /\ dataUrl = <<"data:", ",", ",", "AAAA">>
    /\ converted.result.kind = "throw"

\* C15: when the resize specification of a request resolves to a target width
\* or height of zero or less, the request ends with an error and stores no
\* image, although the remote call returned one.
C15_ZeroTargetIsError ==
    [][\A r \in requests, o \in RemoteOutcomes :
          (/\ RemoteDone(r, o)
           /\ o.result = "image"
           /\ r.plan.needed
           /\ (r.plan.width <= 0 \/ r.plan.height <= 0))
             => (error' # NoError /\ editedImage' = Null)]_vars

\* C16: an edit of the target width to w, once the size of the image is known,
\* sets the target height to round(w * H / W) when the lock is on, W x H being
\* the size of the Working Image, and leaves the height as it is when the lock
\* is off.
C16_LockedWidthEdit ==
    [][(/\ lastOp'.op = "handleWidthChange"
        /\ loads = <<>>
        /\ originalDimensions # Null
        /\ WorkingDims.width > 0)
          => IF resizeOptions.isAspectRatioLocked
             THEN resizeOptions'.height =
                     RoundDiv(resizeOptions'.width * WorkingDims.height, WorkingDims.width)
             ELSE resizeOptions'.height = resizeOptions.height]_vars

\* C17: in every state in which the lock is on and the size of the image is
\* known, the target height is round(width * H / W), W x H being the size of
\* the Working Image.
C17_LockInvariant ==
    (/\ resizeOptions.isAspectRatioLocked
     /\ originalImage # NoFile
     /\ originalDimensions # Null
     /\ loads = <<>>
     /\ WorkingDims.width > 0)
        => resizeOptions.height =
              RoundDiv(resizeOptions.width * WorkingDims.height, WorkingDims.width)

\* The handlers of the resize and crop controls.
LocalOps ==
    {"handleResizeModeChange", "handlePercentageChange", "handleWidthChange",
     "handleHeightChange", "toggleAspectRatioLock", "OpenCropModal", "CropDrag",
     "CancelCrop", "handleApplyCrop", "handleResetCrop"}

\* C18: a step of a resize or crop control leaves Edit Result, Adjusted Result,
\* error, isLoading and isEnhancing as they are and starts or changes no
\* request and no filter; an image is stored as Edit Result only by the step
\* that completes a request (the remote call or the resize after it).
C18_EditsAreLocal ==
    [][/\ lastOp'.op \in LocalOps =>
             /\ editedImage' = editedImage
             /\ finalImage' = finalImage
             /\ error' = error
             /\ isLoading' = isLoading
             /\ isEnhancing' = isEnhancing
             /\ requests' = requests
             /\ pendingFilters' = pendingFilters
       /\ (editedImage' # Null /\ editedImage' # editedImage)
             => lastOp'.op \in {"RemoteDone", "ResizeDone"}]_vars

\* The percentage was changed while a request whose plan had been fixed at the
\* click was waiting for the remote call.
C18_Witness ==
    /\ lastOp.op = "handlePercentageChange"
    /\ resizeOptions.percentage # 100
    /\ \E r \in requests : r.phase = "calling" /\ ~r.plan.needed

\* ------------------------------------------- the handlers called directly
\* The handlers called while their button is disabled (a click cannot do
\* that): the only runs in which their validation branch is taken.
InvokeGenerate == GenerateDisabled /\ GenerateHandler

InvokeEnhance == EnhanceDisabled /\ EnhanceHandler

DirectInit == Mounted /\ budget = MaxDirectEvents /\ dataUrl = <<>>

DirectNext ==
    \/ Next
    \/ InvokeGenerate
    \/ InvokeEnhance

DirectSpec == DirectInit /\ [][DirectNext]_vars

\* What a rejected invocation leaves alone: everything but error.
ValidationOnly ==
    /\ isLoading' = isLoading
    /\ isEnhancing' = isEnhancing
    /\ requests' = requests
    /\ editedImage' = editedImage
    /\ finalImage' = finalImage
    /\ pendingFilters' = pendingFilters
    /\ UNCHANGED <<originalImage, prompt, cropVars, originalDimensions, resizeOptions,
                   contrast, loads>>

\* C19: the Generate handler run without an image, or with an empty or blank
\* prompt, sets the validation error and nothing else: no flag is set, no
\* request is started, Edit Result and Adjusted Result stay.  The Auto Enhance
\* handler does the same without an image, and with an image it starts a
\* request whatever the prompt is.
C19_ValidationGuard ==
    [][/\ (lastOp'.op = "handleGenerateClick" /\ events' # events
             /\ (originalImage = NoFile \/ prompt \in {"", " "}))
            => (error' = ErrGeneratePrecondition /\ ValidationOnly)
       /\ (lastOp'.op = "handleEnhanceClick" /\ events' # events
             /\ originalImage = NoFile)
            => (error' = ErrEnhancePrecondition /\ ValidationOnly)
       /\ (lastOp'.op = "handleEnhanceClick" /\ events' # events
             /\ originalImage # NoFile)
            => (error' # ErrEnhancePrecondition /\ editedImage' = Null)]_vars

\* The Generate handler ran with a blank prompt while an Edit Result was
\* shown: the result is still there.
C19_Witness ==
    /\ lastOp.op = "handleGenerateClick"
    /\ prompt = " "
    /\ error = ErrGeneratePrecondition
    /\ editedImage # Null
    /\ finalImage # Null
    /\ ~isLoading

\* --------------------------------------------------------------- download
\* The text of a downloaded data URL: "data:", ";" and "/" are the characters
\* handleDownload looks for.
DownloadTokens == {"data:", "image", "/", "jpeg", "png", "webp", ";"}
DownloadInputs == UNION {[1..n -> DownloadTokens] : n \in 0..MaxDownloadUrlLen}

\* finalImage.match(/data:([^;]+);/)?.[1] || 'image/png': the leftmost "data:"
\* that is followed by text without ";" and then by ";".
MatchDeclaredMime(s) ==
    LET Matches(d) == s[d] = "data:" /\ IndexOf(s, ";", d + 1) > d + 1
    IN  IF \E d \in 1..Len(s) : Matches(d)
        THEN LET d == CHOOSE d \in 1..Len(s) :
                          Matches(d) /\ \A k \in 1..(d - 1) : ~Matches(k)
             IN  SubSeq(s, d + 1, IndexOf(s, ";", d + 1) - 1)
        ELSE <<"image", "/", "png">>

\* mimeType.split('/')[1]
SplitSlash1(s) ==
    LET c1 == IndexOf(s, "/", 1)
        c2 == IndexOf(s, "/", c1 + 1)
    IN  IF c1 = 0 THEN Undefined
        ELSE SubSeq(s, c1 + 1, IF c2 = 0 THEN Len(s) ELSE c2 - 1)

\* Mutant of Extension: the subtype is used as it is, jpeg included.
Extension_Subtype(mimeType) ==
    IF Falsy(SplitSlash1(mimeType)) THEN "png" ELSE Join(SplitSlash1(mimeType))

\* mimeType.split('/')[1] === 'jpeg' ? 'jpg' : mimeType.split('/')[1] || 'png'
Extension(mimeType) ==
    IF ~Falsy(SplitSlash1(mimeType)) /\ Join(SplitSlash1(mimeType)) = "jpeg" THEN "jpg"
    ELSE IF Falsy(SplitSlash1(mimeType)) THEN "png"
    ELSE Join(SplitSlash1(mimeType))

\* link.download
DownloadName(text) == "edited-image." \o Extension(MatchDeclaredMime(text))

\* The text of the data URL of an image of the model.
ImageText(img) ==
    <<"data:", "image", "/", IF img.mime = "image/jpeg" THEN "jpeg" ELSE "png",
      ";", "base64", ",", "AAAA">>

Downloaded(text) ==
    [fn |-> "handleDownload", fileType |-> "",
     result |-> [kind |-> "download", name |-> DownloadName(text)]]

\* handleDownload, whoever calls it.
DownloadHandler ==
    /\ events < budget
    /\ events' = events + 1
    /\ lastOp' = [op |-> "handleDownload", kind |-> "user"]
    /\ converted' = IF finalImage = Null THEN converted
                    ELSE Downloaded(ImageText(finalImage))
    /\ UNCHANGED <<originalImage, prompt, editedImage, finalImage, statusVars, cropVars,
                   originalDimensions, resizeOptions, contrast, apiKey, requests,
                   pendingFilters, loads, budget, dataUrl>>

\* {finalImage && !isLoading && !isEnhancing && !error && (<button onClick={handleDownload}>)}
DownloadRendered == finalImage # Null /\ ~isLoading /\ ~isEnhancing /\ error = NoError

\* A click on the Download button.
handleDownload == DownloadRendered /\ DownloadHandler

\* The handler called while the button is not rendered.
InvokeDownload == ~DownloadRendered /\ DownloadHandler

\* The handler run on its own with finalImage being a text of the bounded set.
DownloadText ==
    /\ budget = 0
    /\ converted = Null
    /\ converted' = Downloaded(dataUrl)
    /\ lastOp' = [op |-> "DownloadText", kind |-> "codec"]
    /\ codecUnchanged

DownloadInit ==
    /\ Mounted
    /\ \/ budget = MaxDirectEvents /\ dataUrl = <<>>
       \/ budget = 0 /\ dataUrl \in DownloadInputs

DownloadNext ==
    \/ Next
    \/ handleDownload
    \/ InvokeDownload
    \/ DownloadText

DownloadSpec == DownloadInit /\ [][DownloadNext]_vars

\* s[d] .. s[e] is the first 'data:<mime>;' of s with a MIME type that is not empty.
DeclaresAt(s, d, e) ==
    /\ d + 1 < e
    /\ s[d] = "data:" /\ s[e] = ";"
    /\ \A k \in (d + 1)..(e - 1) : s[k] # ";"
    /\ \A k \in 1..(d - 1) : s[k] = "data:" => (k = Len(s) \/ s[k + 1] = ";"
                                                 \/ \A j \in (k + 1)..Len(s) : s[j] # ";")

\* Position i holds the first "/" of m.
FirstSlash(m, i) == m[i] = "/" /\ \A k \in 1..(i - 1) : m[k] # "/"

\* m has no "/", or nothing between its first "/" and the next one (or its end).
NoSubtype(m) ==
    \/ \A i \in 1..Len(m) : m[i] # "/"
    \/ \E i \in 1..Len(m) : FirstSlash(m, i) /\ (i = Len(m) \/ m[i + 1] = "/")

\* name is the file name the claim gives for the MIME type m.
NameForMime(m, name) ==
    /\ m = <<"image", "/", "jpeg">> => name = "edited-image.jpg"
    /\ m = <<"image", "/", "png">> => name = "edited-image.png"
    /\ (Len(m) = 3 /\ m[1] = "image" /\ m[2] = "/" /\ m[3] \notin {"/", "jpeg"})
          => name = "edited-image." \o m[3]
    /\ NoSubtype(m) => name = "edited-image.png"

\* name is the file name the claim gives for the data URL s.
NameFor(s, name) ==
    IF \E d \in 1..Len(s), e \in 1..Len(s) : DeclaresAt(s, d, e)
    THEN \A d \in 1..Len(s), e \in 1..Len(s) :
            DeclaresAt(s, d, e) => NameForMime(SubSeq(s, d + 1, e - 1), name)
    ELSE name = "edited-image.png"

\* C20: a download names the file edited-image.<ext>: jpg for image/jpeg, png
\* for image/png, the subtype for any other image/<subtype>, and png when the
\* data URL declares no MIME type or one without a subtype; called without an
\* Adjusted Result the handler does nothing.
C20_DownloadName ==
    /\ []((lastOp.op = "DownloadText") => NameFor(dataUrl, converted.result.name))
    /\ [][(lastOp'.op = "handleDownload" /\ events' # events) =>
             IF finalImage = Null
             THEN converted' = converted
             ELSE /\ converted'.fn = "handleDownload"
                  /\ NameFor(ImageText(finalImage), converted'.result.name)
                  /\ finalImage.mime = "image/jpeg"
                        => converted'.result.name = "edited-image.jpg"]_vars

\* The handler named the file after a MIME type that is neither jpeg nor png.
C20_Witness ==
    /\ lastOp.op = "DownloadText"
    /\ dataUrl = <<"data:", "image", "/", "webp", ";">>
    /\ converted.result.name = "edited-image.webp"

\* ------------------------------------------------------------ C21
\* The instruction the handler of the given kind passes to editImageWithGemini.
InstructionOf(kind) == IF kind = "generate" THEN prompt ELSE ENHANCE_PROMPT

\* The handler that just ran started the invocation r.
Started(r) ==
    /\ lastOp'.op \in {"handleGenerateClick", "handleEnhanceClick"}
    /\ r \in requests' \ requests

\* The awaited file read of the invocation r0 just gave the part the
\* invocation, now r, calls the remote capability with.
SentAfterRead(r0, r) ==
    /\ lastOp'.op = "ReadDone"
    /\ r0 \in requests \ requests'
    /\ r \in requests' \ requests
    /\ r.phase = "calling"

\* C21: the pair a handler sends is made of what the handler finds when it
\* runs.  With a crop applied (croppedImageUrl non-null) it calls the remote
\* capability at once with the cropped image; without one it reads the original
\* file and calls with that file's content and type once the read is done,
\* the same for Generate and Auto Enhance.  The instruction is the prompt text
\* for Generate and ENHANCE_PROMPT for Auto Enhance, whatever the prompt is,
\* and neither payload nor instruction changes while the call is pending.
C21_EditRequest ==
    /\ [][\A r \in requests' : Started(r) =>
             /\ r.kind = lastOp'.kind
             /\ r.instruction = InstructionOf(r.kind)
             /\ r.file = originalImage
             /\ IF croppedImageUrl # Null
                THEN /\ r.phase = "calling"
                     /\ r.part.kind = "part"
                     /\ r.part.data = croppedImageUrl
                     /\ r.part.mimeType = "image/png"
                ELSE /\ r.phase = "reading"
                     /\ r.file # NoFile
                     /\ r.part = Null]_vars
    /\ [][\A r0 \in requests, r \in requests' : SentAfterRead(r0, r) =>
             /\ r.kind = r0.kind
             /\ r.instruction = r0.instruction
             /\ r.part = [kind |-> "part", data |-> [kind |-> "file", file |-> r0.file],
                          mimeType |-> FileType(r0.file)]]_vars
    /\ [](\A r \in requests :
             /\ r.kind = "enhance" => r.instruction = ENHANCE_PROMPT
             /\ r.kind = "generate" => r.instruction \in Prompts \ {"", " "}
             /\ r.phase # "reading" =>
                   \/ r.part.data = [kind |-> "file", file |-> r.file]
                   \/ (r.part.data.kind = "crop" /\ r.part.data.file = r.file))

\* Auto Enhance was clicked with a crop applied and a prompt typed: the call
\* is pending with the cropped image and the built-in instruction.
C21_Witness ==
    /\ lastOp = [op |-> "handleEnhanceClick", kind |-> "enhance"]
    /\ prompt = "sky"
    /\ croppedImageUrl # Null
    /\ \E r \in requests :
          /\ r.phase = "calling"
          /\ r.part.data = croppedImageUrl
          /\ r.instruction = ENHANCE_PROMPT

\* ------------------------------------------------------------ C22
\* C22: with an image selected and no Image() load pending, originalDimensions
\* is the size of the Working Image: the applied crop's size if a crop is
\* applied, otherwise the size of the selected file.
C22_DimensionsTrackWorkingImage ==
    (originalImage # NoFile /\ loads = <<>>) => originalDimensions = WorkingDims
====
